---------------------------- MODULE Spec2Model ----------------------------
(***************************************************************************)
(* A model of src/mongo/db/repl/sync_tail.cpp: the partitioning of an      *)
(* oplog batch into writer vectors (SyncTail::fillWriterVectors) and the   *)
(* application of one oplog entry (syncApply).                             *)
(*                                                                         *)
(* An oplog entry is a record.  Its opTime is its position in the batch    *)
(* (the oplog is strictly increasing in opTime).  A writer vector holds    *)
(* pointers: [pool |-> 0, idx |-> i] is &ops[i] of the input batch,        *)
(* [pool |-> p, idx |-> j] is &derivedOps[p][j].                           *)
(***************************************************************************)
EXTENDS Integers, Sequences, FiniteSets, TLC

\* ------------------------------------------------------------- bounds
MaxBatch == 3
NumWriters == 2

\* ---------------------------------------------------------- universes
Modes == {"Secondary", "InitialSync", "Recovering"}
NsC == "a.c"
NsK == "a.k"
TxnTable == "config.transactions"
Ids == {1, 2}
Sessions == {1, 2}
TxnNumbers == {7}
BeginApplyingOpTimes == {0, 1}
\* The catalog during one pass: a.k is a capped collection, a.c is not.
CappedCollections == {NsK}
\* The hash values are kept on 16 bits (uint32_t in the code): only
\* hash % numWriters is ever observed.
HashSpace == 65536

VARIABLES
    mode,                  \* _options.mode
    supportsDocLocking,    \* getStorageEngine()->supportsDocLocking()
    beginApplyingOpTime,   \* _options.beginApplyingOpTime
    ops,                   \* the input batch read so far
    writerVectors,         \* std::vector<MultiApplier::OperationPtrs>
    derivedOps,            \* std::vector<MultiApplier::Operations>
    partialTxnOps,         \* LogicalSessionIdMap<std::vector<OplogEntry*>>
    sessionUpdateTracker,  \* the tracker's pending session updates
    trackerInputs,         \* the ops updateSession has been called with, in order
    collPropertiesCache,   \* CachedCollectionProperties::_cache
    pc,                    \* "scan" while in the loop, "done" after the flush
    saPc,                  \* where a call of syncApply stands
    opType,                \* op.getOpType() of the entry syncApply is given
    collLocked,            \* the AutoGetCollection of the current attempt holds its lock
    applyCalls,            \* calls of applyOperation_inlock made by this syncApply
    commandCalls,          \* calls of applyCommand_inlock made by this syncApply
    writeConflicts,        \* WriteConflicts reported to this syncApply so far
    opsAppliedStats,       \* the ops-applied counter
    lastOutcome,           \* what the last attempt met: [how, code]
    status,                \* the Status syncApply returned
    thrown,                \* the code of the exception syncApply let out
    now,                   \* what clockSource->now() reads, in ms
    applyStartTime,        \* applyStartTime of this syncApply
    gateLeftAt,            \* the clock when the fail point let the caller go
    slowOpLog,             \* the slow-op records syncApply has logged
    allowNamespaceNotFoundErrorsOnCrudOps,  \* the option of that name
    workerOps,             \* the vector multiSyncApply is given (its ops)
    wPc,                   \* where a call of multiSyncApply stands
    it,                    \* the iterator of multiSyncApply's loop
    applyLog,              \* what each op applied so far came to: [at, how, code]
    workerStatus,          \* the Status multiSyncApply returned
    isTrackingMultikeyPathInfo,  \* the MultikeyPathTracker is tracking
    multikeyPathInfo,      \* the paths the MultikeyPathTracker has collected
    workerMultikeyPathInfo \* the caller's WorkerMultikeyPathInfo

fillVars == <<mode, supportsDocLocking, beginApplyingOpTime, ops, writerVectors,
              derivedOps, partialTxnOps, sessionUpdateTracker, trackerInputs,
              collPropertiesCache, pc>>

applyVars == <<saPc, opType, collLocked, applyCalls, commandCalls, writeConflicts,
               opsAppliedStats, lastOutcome, status, thrown, now, applyStartTime,
               gateLeftAt, slowOpLog>>

workerVars == <<allowNamespaceNotFoundErrorsOnCrudOps, workerOps, wPc, it, applyLog,
                workerStatus, isTrackingMultikeyPathInfo, multikeyPathInfo,
                workerMultikeyPathInfo>>

\* ------------------------------------------------------- oplog entries
Inner(t, n, i) == [opType |-> t, ns |-> n, id |-> i]

Entry(k, t, n, i, s, x, in, ot) ==
    [kind |-> k, opType |-> t, ns |-> n, id |-> i, sid |-> s, txn |-> x,
     inner |-> in, opTime |-> ot, isForCappedCollection |-> FALSE, entry |-> ot]

InnerChoices == { <<Inner("i", NsC, 1)>>,
                  <<Inner("i", NsK, 2), Inner("d", NsC, 1)>> }

\* The oplog entries a batch may hold at opTime ot.
InputOps(ot) ==
    {Entry("crud", "i", n, i, 0, 0, <<>>, ot) : n \in {NsC, NsK}, i \in Ids}
    \cup {Entry("crud", "d", NsC, 1, 0, 0, <<>>, ot)}
    \cup {Entry("crud", "u", NsC, 2, 1, 7, <<>>, ot)}
    \cup {Entry("noop", "n", NsC, 0, 0, 0, <<>>, ot)}
    \cup {Entry("partial", "c", "a.$cmd", 0, 1, x, in, ot) :
              x \in TxnNumbers, in \in InnerChoices}
    \cup {Entry("partial", "c", "a.$cmd", 0, 2, x, <<Inner("i", NsC, 1)>>, ot) :
              x \in TxnNumbers}
    \cup {Entry("applyOps", "c", "a.$cmd", 0, s, x, <<Inner("u", NsC, 2)>>, ot) :
              s \in Sessions, x \in TxnNumbers}
    \cup {Entry("applyOps", "c", "a.$cmd", 0, 0, 0, <<Inner("i", NsK, 1)>>, ot)}
    \cup {Entry("prepare", "c", "a.$cmd", 0, 1, x, <<Inner("i", NsC, 2)>>, ot) :
              x \in TxnNumbers}
    \cup {Entry("commit", "c", "a.$cmd", 0, 1, x, <<>>, ot) : x \in TxnNumbers}
    \cup {Entry("abort", "c", "a.$cmd", 0, s, x, <<>>, ot) :
              s \in Sessions, x \in TxnNumbers}

isCrudOpType(op) == op.opType \in {"i", "u", "d"}
isPartialTransaction(op) == op.kind = "partial"
shouldPrepare(op) == op.kind = "prepare"
isTerminalApplyOps(op) == op.kind = "applyOps"
isPreparedCommit(op) == op.kind = "commit"
isAbortTransaction(op) == op.kind = "abort"

\* ------------------------------------------------------------- hashing
Namespaces == {NsC, NsK, TxnTable, "a.$cmd"}

\* StringMapHasher().hashed_key(ns).hash(), reduced to 32 bits.
NsHash(ns) ==
    CASE ns = NsC -> 50021 % HashSpace
      [] ns = NsK -> 14406 % HashSpace
      [] ns = TxnTable -> 33391 % HashSpace
      [] OTHER -> 40503 % HashSpace

\* BSONElementComparator::hash of the _id element.
IdHash(id) == (id * 40503) % HashSpace

\* MurmurHash3_x86_32(&idHash, sizeof(idHash), seed, &out): a 32-bit mix of the
\* key and the seed.
MurmurHash3_x86_32(key, seed) == (seed * 5 + key * 3 + 27492) % HashSpace

Ptr(p, i) == [pool |-> p, idx |-> i]

Deref(st, ptr) ==
    IF ptr.pool = 0 THEN st.ops[ptr.idx] ELSE st.dv[ptr.pool][ptr.idx]

\* CachedCollectionProperties::getCollectionPropertiesImpl: the catalog's answer.
getCollectionPropertiesImpl(ns) == ns \in CappedCollections

\* CachedCollectionProperties::getCollectionProperties: the cached answer, or
\* the catalog's, which is then cached.
CacheAfter(cache, ns) ==
    IF cache[ns] # "miss" THEN cache
    ELSE [cache EXCEPT ![ns] =
             IF getCollectionPropertiesImpl(ns) THEN "capped" ELSE "plain"]

isCappedCached(cache, ns) == CacheAfter(cache, ns)[ns] = "capped"

\* A processCrudOp that mixes the _id into the hash for every collection.
CrudHashAlwaysId(op, hash, capped, docLocking) ==
    MurmurHash3_x86_32(IdHash(op.id), hash)

\* The hash processCrudOp leaves in *hash.
CrudHash(op, hash, capped, docLocking) ==
    IF docLocking /\ ~capped
    THEN MurmurHash3_x86_32(IdHash(op.id), hash)
    ELSE hash

\* A processCrudOp that marks every insert.
CrudCappedMarkEveryInsert(op, capped) ==
    IF op.opType = "i" THEN TRUE ELSE op.isForCappedCollection

\* The isForCappedCollection flag processCrudOp leaves on the op.
CrudCappedMark(op, capped) ==
    IF op.opType = "i" /\ capped THEN TRUE ELSE op.isForCappedCollection

SetOp(st, ptr, op) ==
    IF ptr.pool = 0
    THEN [st EXCEPT !.ops[ptr.idx] = op]
    ELSE [st EXCEPT !.dv[ptr.pool][ptr.idx] = op]

\* processCrudOp: [st, hash] after the call.
processCrudOp(st, ptr, hash, docLocking) ==
    LET op == Deref(st, ptr)
        capped == isCappedCached(st.cache, op.ns)
        st1 == [st EXCEPT !.cache = CacheAfter(st.cache, op.ns)]
    IN  [st |-> SetOp(st1, ptr, [op EXCEPT !.isForCappedCollection =
                                        CrudCappedMark(op, capped)]),
         hash |-> CrudHash(op, hash, capped, docLocking)]

\* A router that takes the vector after the one the hash names.
WriterIndexShifted(hash) == ((hash + 1) % NumWriters) + 1

\* The vector addToWriterVector picks: hash % numWriters.
WriterIndex(hash) == (hash % NumWriters) + 1

\* A router that deals the ops out in turn, whatever their hash.
addToWriterVectorInTurn(st, ptr, hash) ==
    [st EXCEPT !.wv[(ptr.idx % NumWriters) + 1] = Append(@, ptr)]

\* addToWriterVector
addToWriterVector(st, ptr, hash) ==
    [st EXCEPT !.wv[WriterIndex(hash)] = Append(@, ptr)]

\* One iteration of addDerivedOps's loop, on derivedOps[p][j].
AddDerivedOp(st, p, j, docLocking) ==
    LET ptr == Ptr(p, j)
        op == Deref(st, ptr)
        hash == NsHash(op.ns)
        r == IF isCrudOpType(op) THEN processCrudOp(st, ptr, hash, docLocking)
             ELSE [st |-> st, hash |-> hash]
    IN  addToWriterVector(r.st, ptr, r.hash)

RECURSIVE AddDerivedFrom(_, _, _, _)
AddDerivedFrom(st, p, j, docLocking) ==
    IF j > Len(st.dv[p]) THEN st
    ELSE AddDerivedFrom(AddDerivedOp(st, p, j, docLocking), p, j + 1, docLocking)

\* derivedOps->emplace_back(list); addDerivedOps(&derivedOps->back(), ...)
addDerivedOps(st, list, docLocking) ==
    LET st1 == [st EXCEPT !.dv = Append(@, list)]
    IN  AddDerivedFrom(st1, Len(st1.dv), 1, docLocking)

\* ------------------------------------------------ external collaborators
\* An operation embedded in an applyOps entry carries no opTime of its own:
\* the extracted OplogEntry takes the fields of the top-level entry it is
\* extracted for; `entry` records the opTime of the oplog entry that embedded
\* it (0 for an op no entry embedded).
ExtractOne(d, from, top) ==
    [kind |-> "crud", opType |-> d.opType, ns |-> d.ns, id |-> d.id, sid |-> 0,
     txn |-> 0, inner |-> <<>>, opTime |-> top.opTime,
     isForCappedCollection |-> FALSE, entry |-> from.opTime]

ExtractOperationsTo(from, top) ==
    [k \in 1..Len(from.inner) |-> ExtractOne(from.inner[k], from, top)]

\* ApplyOps::extractOperations(op)
extractOperations(op) == ExtractOperationsTo(op, op)

RECURSIVE FlattenChain(_, _, _, _)
FlattenChain(st, list, k, top) ==
    IF k > Len(list) THEN <<>>
    ELSE ExtractOperationsTo(Deref(st, list[k]), top)
             \o FlattenChain(st, list, k + 1, top)

\* readTransactionOperationsFromOplogChain(opCtx, op, partialTxnList): the
\* operations of the cached entries in oplog order, then those of op itself.
readTransactionOperationsFromOplogChain(st, op, partialTxnList) ==
    FlattenChain(st, partialTxnList, 1, op) \o ExtractOperationsTo(op, op)

\* The session-table update the tracker writes for session s at opTime ot.
SessionUpdate(s, ot) ==
    [kind |-> "crud", opType |-> "u", ns |-> TxnTable, id |-> s, sid |-> 0,
     txn |-> 0, inner |-> <<>>, opTime |-> ot,
     isForCappedCollection |-> FALSE, entry |-> 0]

NoPending == [s \in Sessions |-> 0]

\* SessionUpdateTracker::updateSession(op): [tr, some, writes].  An entry of a
\* transaction yields the session's update at once; a retryable write is
\* remembered until the flush.
updateSession(tr, op) ==
    IF op.sid = 0 THEN [tr |-> tr, some |-> FALSE, writes |-> <<>>]
    ELSE IF op.kind \in {"applyOps", "prepare", "commit", "abort"}
    THEN [tr |-> [tr EXCEPT ![op.sid] = 0], some |-> TRUE,
          writes |-> <<SessionUpdate(op.sid, op.opTime)>>]
    ELSE IF isCrudOpType(op)
    THEN [tr |-> [tr EXCEPT ![op.sid] = op.opTime], some |-> FALSE, writes |-> <<>>]
    ELSE [tr |-> tr, some |-> FALSE, writes |-> <<>>]

RECURSIVE FlushFrom(_, _)
FlushFrom(tr, s) ==
    IF s \notin Sessions THEN <<>>
    ELSE (IF tr[s] = 0 THEN <<>> ELSE <<SessionUpdate(s, tr[s])>>)
             \o FlushFrom(tr, s + 1)

\* SessionUpdateTracker::flushAll()
flushAll(tr) == FlushFrom(tr, 1)

\* ------------------------------------- _deriveOpsAndFillWriterVectors
\* A tracker step that stores the tracker's writes and routes none of them.
TrackStepNoRoute(st, ptr, docLocking, useTracker) ==
    IF ~useTracker THEN st
    ELSE LET u == updateSession(st.tr, Deref(st, ptr))
             st1 == [st EXCEPT !.tr = u.tr, !.fed = Append(@, ptr)]
         IN  IF u.some THEN [st1 EXCEPT !.dv = Append(@, u.writes)] ELSE st1

\* Lines 502-507: the tracker is given the op at ptr; its writes, if any, are
\* stored and routed by addDerivedOps.
TrackStep(st, ptr, docLocking, useTracker) ==
    IF ~useTracker THEN st
    ELSE LET u == updateSession(st.tr, Deref(st, ptr))
             st1 == [st EXCEPT !.tr = u.tr, !.fed = Append(@, ptr)]
         IN  IF u.some THEN addDerivedOps(st1, u.writes, docLocking) ELSE st1

\* A test that keeps back only the prepare of an initial sync.
IsBufferedPrepareOnly(op, md) == shouldPrepare(op) /\ md = "InitialSync"

\* Lines 514-515: the entry is kept back until its transaction ends.
IsBuffered(op, md) ==
    isPartialTransaction(op) \/ (shouldPrepare(op) /\ md = "InitialSync")

\* An abortTransaction that leaves the session's partial list as it is.
AbortStepNoClear(st, op) == st

\* An abortTransaction that clears the partial lists of every session.
AbortStepClearAll(st, op) ==
    IF isAbortTransaction(op) THEN [st EXCEPT !.pt = [s \in Sessions |-> <<>>]] ELSE st

\* Lines 525-528
AbortStep(st, op) ==
    IF isAbortTransaction(op) THEN [st EXCEPT !.pt[op.sid] = <<>>] ELSE st

\* A terminal applyOps that leaves the session's partial list as it is.
TerminalStepNoClear(st, op, docLocking) ==
    IF op.sid # 0 /\ op.txn # 0
    THEN addDerivedOps(st, readTransactionOperationsFromOplogChain(
                               st, op, st.pt[op.sid]), docLocking)
    ELSE addDerivedOps(st, extractOperations(op), docLocking)

\* Lines 534-560: a terminal applyOps.
TerminalStep(st, op, docLocking) ==
    IF op.sid # 0 /\ op.txn # 0
    THEN LET list == readTransactionOperationsFromOplogChain(st, op, st.pt[op.sid])
         IN  addDerivedOps([st EXCEPT !.pt[op.sid] = <<>>], list, docLocking)
    ELSE addDerivedOps(st, extractOperations(op), docLocking)

\* A prepared commit that is materialized in every mode.
IsMaterializedCommitAnyMode(op, md) == isPreparedCommit(op)

\* Lines 565-575: a prepared commit during initial sync.
IsMaterializedCommit(op, md) == isPreparedCommit(op) /\ md = "InitialSync"

PreparedCommitStep(st, op, docLocking) ==
    LET list == readTransactionOperationsFromOplogChain(st, op, st.pt[op.sid])
    IN  addDerivedOps([st EXCEPT !.pt[op.sid] = <<>>], list, docLocking)

\* A floor that lets the entry at beginApplyingOpTime itself through.
BelowFloorStrict(op, floor) == op.opTime < floor

\* Line 490
BelowFloor(op, floor) == op.opTime <= floor

\* One iteration of the loop over *ops, on the entry at ptr.
StepOp(st, ptr, md, docLocking, floor, useTracker) ==
    LET op == Deref(st, ptr) IN
    IF BelowFloor(op, floor) THEN st
    ELSE
      LET st1 == TrackStep(st, ptr, docLocking, useTracker) IN
      IF IsBuffered(op, md)
      THEN [st1 EXCEPT !.pt[op.sid] = Append(@, ptr)]
      ELSE
        LET st2 == AbortStep(st1, op)
            r == IF isCrudOpType(op)
                 THEN processCrudOp(st2, ptr, NsHash(op.ns), docLocking)
                 ELSE [st |-> st2, hash |-> NsHash(op.ns)]
        IN  IF isTerminalApplyOps(op) THEN TerminalStep(r.st, op, docLocking)
            ELSE IF IsMaterializedCommit(op, md)
            THEN PreparedCommitStep(r.st, op, docLocking)
            ELSE addToWriterVector(r.st, ptr, r.hash)

\* The loop over derivedOps[p] from index j on (the recursive pass).
RECURSIVE PassFrom(_, _, _, _, _, _)
PassFrom(st, p, j, md, docLocking, floor) ==
    IF j > Len(st.dv[p]) THEN st
    ELSE PassFrom(StepOp(st, Ptr(p, j), md, docLocking, floor, FALSE),
                  p, j + 1, md, docLocking, floor)

NoPartial == [s \in Sessions |-> <<>>]
EmptyCache == [n \in Namespaces |-> "miss"]

\* Lines 589-594 of fillWriterVectors: the flush and the second pass, which has
\* a partialTxnOps map and a property cache of its own.
FlushStep(st, md, docLocking, floor) ==
    LET newOplogWrites == flushAll(st.tr) IN
    IF newOplogWrites = <<>> THEN st
    ELSE LET st1 == [st EXCEPT !.dv = Append(@, newOplogWrites),
                               !.pt = NoPartial, !.cache = EmptyCache]
             st2 == PassFrom(st1, Len(st1.dv), 1, md, docLocking, floor)
         IN  [st2 EXCEPT !.pt = st.pt, !.cache = st.cache]

NoError == [how |-> "none", code |-> "none"]

\* --------------------------------------------------------------- actions
State == [ops |-> ops, wv |-> writerVectors, dv |-> derivedOps,
          pt |-> partialTxnOps, tr |-> sessionUpdateTracker,
          fed |-> trackerInputs, cache |-> collPropertiesCache]

SetState(st) ==
    /\ ops' = st.ops
    /\ writerVectors' = st.wv
    /\ derivedOps' = st.dv
    /\ partialTxnOps' = st.pt
    /\ sessionUpdateTracker' = st.tr
    /\ trackerInputs' = st.fed
    /\ collPropertiesCache' = st.cache

\* No call of syncApply has been made.
SyncApplyIdle ==
    /\ saPc = "idle"
    /\ opType = "none"
    /\ collLocked = FALSE
    /\ applyCalls = 0
    /\ commandCalls = 0
    /\ writeConflicts = 0
    /\ opsAppliedStats = 0
    /\ lastOutcome = NoError
    /\ status = "none"
    /\ thrown = "none"
    /\ now = 0
    /\ applyStartTime = 0
    /\ gateLeftAt = 0
    /\ slowOpLog = <<>>

\* No writer thread has been started.
WorkerIdle ==
    /\ allowNamespaceNotFoundErrorsOnCrudOps = FALSE
    /\ workerOps = <<>>
    /\ wPc = "idle"
    /\ it = 0
    /\ applyLog = <<>>
    /\ workerStatus = "none"
    /\ isTrackingMultikeyPathInfo = FALSE
    /\ multikeyPathInfo = <<>>
    /\ workerMultikeyPathInfo = <<>>

Init ==
    /\ mode \in Modes
    /\ supportsDocLocking \in BOOLEAN
    /\ beginApplyingOpTime \in BeginApplyingOpTimes
    /\ ops = <<>>
    /\ writerVectors = [w \in 1..NumWriters |-> <<>>]
    /\ derivedOps = <<>>
    /\ partialTxnOps = NoPartial
    /\ sessionUpdateTracker = NoPending
    /\ trackerInputs = <<>>
    /\ collPropertiesCache = EmptyCache
    /\ pc = "scan"
    /\ SyncApplyIdle
    /\ WorkerIdle

\* The invariant of line 519 on the entries of one transaction.
TxnNumberAgrees(st, op) ==
    IF st.pt[op.sid] = <<>> THEN TRUE
    ELSE Deref(st, st.pt[op.sid][1]).txn = op.txn

\* The loop of _deriveOpsAndFillWriterVectors reads the next entry of the batch.
Scan ==
    /\ pc = "scan"
    /\ Len(ops) < MaxBatch
    /\ \E op \in InputOps(Len(ops) + 1) :
          LET st == [State EXCEPT !.ops = Append(ops, op)] IN
          /\ IsBuffered(op, mode) => TxnNumberAgrees(st, op)
          /\ SetState(StepOp(st, Ptr(0, Len(ops) + 1), mode, supportsDocLocking,
                             beginApplyingOpTime, TRUE))
    /\ UNCHANGED <<mode, supportsDocLocking, beginApplyingOpTime, pc>>
    /\ UNCHANGED <<applyVars, workerVars>>

\* The batch is exhausted: fillWriterVectors flushes the tracker and returns.
Flush ==
    /\ pc = "scan"
    /\ SetState(FlushStep(State, mode, supportsDocLocking, beginApplyingOpTime))
    /\ pc' = "done"
    /\ UNCHANGED <<mode, supportsDocLocking, beginApplyingOpTime>>
    /\ UNCHANGED <<applyVars, workerVars>>

NextFill == Scan \/ Flush

vars == <<fillVars, applyVars, workerVars>>

SpecFill == Init /\ [][NextFill]_vars

\* -------------------------------------------------------------- syncApply
MaxConflicts == 2

OpTypes == {"n", "i", "u", "d", "c"}
CrudTypes == {"i", "u", "d"}

\* What applyOperation_inlock may hand back: a Status, or an exception.
ApplyOutcomes ==
    {[how |-> "status", code |-> c] :
        c \in {"OK", "WriteConflict", "UpdateOperationFailed", "NamespaceNotFound",
               "BadValue"}}
    \cup {[how |-> "throw", code |-> c] :
              c \in {"WriteConflict", "NamespaceNotFound", "BadValue"}}

\* What applyCommand_inlock may hand back.
CommandOutcomes ==
    {[how |-> "status", code |-> c] :
        c \in {"OK", "WriteConflict", "NamespaceNotFound", "BadValue"}}
    \cup {[how |-> "throw", code |-> c] :
              c \in {"WriteConflict", "NamespaceNotFound", "BadValue"}}

\* serverGlobalParams.slowMS
slowMS == 1

\* How long pauseWhileSet keeps the caller: not at all (the fail point is
\* off), or longer than slowMS.
FailPointWaits == {0, slowMS + 1}

\* How far the clock moves during one call that syncApply makes.
Durations == {0, 1, 2}

\* A counter that counts one application twice.
incrementOpsAppliedStatsTwice(n) == n + 2

\* Line 295
incrementOpsAppliedStats(n) == n + 1

\* syncApply is called with an entry of some type and records the start time
\* (lines 282-316).
SyncApplyCall ==
    /\ saPc = "idle"
    /\ \E t \in OpTypes : opType' = t
    /\ applyStartTime' = now
    /\ saPc' = "gate"
    /\ UNCHANGED <<collLocked, applyCalls, commandCalls, writeConflicts,
                   opsAppliedStats, lastOutcome, status, thrown, now, gateLeftAt,
                   slowOpLog>>
    /\ UNCHANGED <<fillVars, workerVars>>

\* Lines 330, 333 and 360: the branch taken for op type t.
Dispatch(t) ==
    CASE t = "n" -> "noop"
      [] t \in CrudTypes -> "open"
      [] OTHER -> "command"

\* Lines 318-324: the caller waits while hangAfterRecordingOpApplicationStartTime
\* is set, then goes on to the branch of its op type.
FailPointGate ==
    /\ saPc = "gate"
    /\ \E h \in FailPointWaits :
          /\ now' = now + h
          /\ gateLeftAt' = now + h
    /\ saPc' = Dispatch(opType)
    /\ UNCHANGED <<opType, collLocked, applyCalls, commandCalls, writeConflicts,
                   opsAppliedStats, lastOutcome, status, thrown, applyStartTime,
                   slowOpLog>>
    /\ UNCHANGED <<fillVars, workerVars>>

\* A threshold test that reports an op that took exactly slowMS.
IsSlowAtThreshold(diffMS) == diffMS >= slowMS

\* Line 130
IsSlow(diffMS) == diffMS > slowMS

\* Lines 135-139
LogTag(t) == IF t = "c" THEN "command" ELSE "CRUD"

\* finishAndLogApply: the log after the call, made at clock reading end.
finishAndLogApply(log, finalStatus, start, end, t) ==
    IF finalStatus = "OK" /\ IsSlow(end - start)
    THEN Append(log, [tag |-> LogTag(t), diffMS |-> end - start])
    ELSE log

\* A measurement that starts when the fail point lets the caller go.
MeasuredFromGate(start, gate) == gate

\* Lines 316 and 327: the start time finishApply hands to finishAndLogApply is
\* the one recorded before the fail point.
MeasuredFrom(start, gate) == start

\* Lines 326-328: finishApply(status), called at clock reading end.
finishApply(finalStatus, end) ==
    slowOpLog' = finishAndLogApply(slowOpLog, finalStatus,
                                   MeasuredFrom(applyStartTime, gateLeftAt),
                                   end, opType)

\* Lines 330-332
ApplyNoop ==
    /\ saPc = "noop"
    /\ \E d \in Durations : now' = now + d
    /\ opsAppliedStats' = incrementOpsAppliedStats(opsAppliedStats)
    /\ status' = "OK"
    /\ saPc' = "returned"
    /\ UNCHANGED <<opType, collLocked, applyCalls, commandCalls, writeConflicts,
                   lastOutcome, thrown, applyStartTime, gateLeftAt, slowOpLog>>
    /\ UNCHANGED <<fillVars, workerVars>>

\* A handler that treats NamespaceNotFound as success for a delete only.
IgnoresNamespaceNotFoundDeleteOnly(t, md) == t = "d"

\* Lines 350-351
IgnoresNamespaceNotFound(t, md) == t = "d" \/ md = "Recovering"

\* The catch block of lines 345-358 with a NamespaceNotFound in hand, thrown by
\* AutoGetCollection ("uuid"), by the uassert of line 340 ("database") or by
\* applyOperation_inlock ("throw"); the locks of the attempt were released on
\* the way out of the try block.  The OK it returns goes through finishApply.
CatchNamespaceNotFound(how, end) ==
    /\ lastOutcome' = [how |-> how, code |-> "NamespaceNotFound"]
    /\ collLocked' = FALSE
    /\ IF IgnoresNamespaceNotFound(opType, mode)
       THEN /\ status' = "OK" /\ saPc' = "returned"
            /\ finishApply("OK", end)
            /\ UNCHANGED thrown
       ELSE /\ thrown' = "NamespaceNotFound" /\ saPc' = "threw"
            /\ UNCHANGED <<status, slowOpLog>>

\* Lines 337-343: AutoGetCollection and the database check of one attempt.
OpenCollection ==
    /\ saPc = "open"
    /\ \E d \in Durations :
          /\ now' = now + d
          /\ \/ /\ collLocked' = TRUE
                /\ saPc' = "apply"
                /\ UNCHANGED <<lastOutcome, status, thrown, slowOpLog>>
             \/ CatchNamespaceNotFound("uuid", now + d)
             \/ CatchNamespaceNotFound("database", now + d)
    /\ UNCHANGED <<opType, applyCalls, commandCalls, writeConflicts, opsAppliedStats,
                   applyStartTime, gateLeftAt>>
    /\ UNCHANGED <<fillVars, workerVars>>

\* An unwinding that leaves the collection lock of the failed attempt held.
LockKeptOnUnwind(held) == held

\* The AutoGetCollection of an attempt goes out of scope with the lambda (the
\* try block of lines 336-344), however the lambda is left.
LockAfterUnwind(held) == FALSE

\* A test that sees only a thrown WriteConflict.
IsWriteConflictThrown(out) == out.how = "throw" /\ out.code = "WriteConflict"

\* Line 309: the Status that applyOp turns into a WriteConflictException.
IsWriteConflict(out) == out.code = "WriteConflict"

\* Lines 344 and 297-313: applyOp calls applyOperation_inlock; a WriteConflict,
\* returned or thrown, goes to writeConflictRetry, which runs the lambda again;
\* a Status that leaves the lambda goes through finishApply.
ApplyOperation ==
    /\ saPc = "apply"
    /\ applyCalls' = applyCalls + 1
    /\ \E d \in Durations : \E out \in ApplyOutcomes :
          /\ now' = now + d
          /\ IF IsWriteConflict(out)
             THEN /\ writeConflicts < MaxConflicts
                  /\ writeConflicts' = writeConflicts + 1
                  /\ lastOutcome' = out
                  /\ collLocked' = LockAfterUnwind(collLocked)
                  /\ saPc' = "open"
                  /\ UNCHANGED <<opsAppliedStats, status, thrown, slowOpLog>>
             ELSE IF out.how = "throw" /\ out.code = "NamespaceNotFound"
             THEN /\ CatchNamespaceNotFound("throw", now + d)
                  /\ UNCHANGED <<writeConflicts, opsAppliedStats>>
             ELSE IF out.how = "throw"
             THEN /\ lastOutcome' = out
                  /\ collLocked' = LockAfterUnwind(collLocked)
                  /\ thrown' = out.code
                  /\ saPc' = "threw"
                  /\ UNCHANGED <<writeConflicts, opsAppliedStats, status, slowOpLog>>
             ELSE /\ lastOutcome' = out
                  /\ collLocked' = LockAfterUnwind(collLocked)
                  /\ opsAppliedStats' =
                         IF out.code = "OK"
                         THEN incrementOpsAppliedStats(opsAppliedStats)
                         ELSE opsAppliedStats
                  /\ status' = out.code
                  /\ saPc' = "returned"
                  /\ finishApply(out.code, now + d)
                  /\ UNCHANGED <<writeConflicts, thrown>>
    /\ UNCHANGED <<opType, commandCalls, applyStartTime, gateLeftAt>>
    /\ UNCHANGED <<fillVars, workerVars>>

\* Lines 360-366: applyCommand_inlock under writeConflictRetry; the counter is
\* incremented whenever applyCommand_inlock returns, and the Status it returned
\* goes through finishApply as it is.
ApplyCommand ==
    /\ saPc = "command"
    /\ commandCalls' = commandCalls + 1
    /\ \E d \in Durations : \E out \in CommandOutcomes :
          /\ now' = now + d
          /\ IF out.how = "throw" /\ out.code = "WriteConflict"
             THEN /\ writeConflicts < MaxConflicts
                  /\ writeConflicts' = writeConflicts + 1
                  /\ lastOutcome' = out
                  /\ UNCHANGED <<saPc, opsAppliedStats, status, thrown, slowOpLog>>
             ELSE IF out.how = "throw"
             THEN /\ lastOutcome' = out
                  /\ thrown' = out.code
                  /\ saPc' = "threw"
                  /\ UNCHANGED <<writeConflicts, opsAppliedStats, status, slowOpLog>>
             ELSE /\ lastOutcome' = out
                  /\ opsAppliedStats' = incrementOpsAppliedStats(opsAppliedStats)
                  /\ status' = out.code
                  /\ saPc' = "returned"
                  /\ finishApply(out.code, now + d)
                  /\ UNCHANGED <<writeConflicts, thrown>>
    /\ UNCHANGED <<opType, collLocked, applyCalls, applyStartTime, gateLeftAt>>
    /\ UNCHANGED <<fillVars, workerVars>>

NextApply ==
    \/ SyncApplyCall \/ FailPointGate \/ ApplyNoop
    \/ OpenCollection \/ ApplyOperation \/ ApplyCommand

SpecApply == Init /\ [][NextApply]_vars

\* --------------------------------------------------------- multiSyncApply
\* The entries a writer vector may hold at place ot of the vector (its ops are
\* in batch order before the sort): an insert, a marked insert into the capped
\* collection, an update and a delete of one document, and a command.
WorkerInputOps(ot) ==
    {Entry("crud", t, NsC, 1, 0, 0, <<>>, ot) : t \in {"i", "u", "d"}}
    \cup {[Entry("crud", "i", NsK, 1, 0, 0, <<>>, ot)
              EXCEPT !.isForCappedCollection = TRUE]}
    \cup {Entry("abort", "c", "a.$cmd", 0, 1, 7, <<>>, ot)}

\* The vectors of n ops: the op at place k has opTime k.
WorkerVectors(n) ==
    {[k \in 1..n |-> [f[k] EXCEPT !.opTime = k, !.entry = k]] :
        f \in [1..n -> WorkerInputOps(0)]}

\* NamespaceString::operator<: the order of the namespace strings.
NsOrder == <<"a.$cmd", NsC, NsK, TxnTable>>

NsRank(ns) == CHOOSE k \in 1..Len(NsOrder) : NsOrder[k] = ns

\* A comparator under which equal namespaces are not equivalent.
nssComparatorOrEqual(l, r) == NsRank(l.ns) <= NsRank(r.ns)

\* Lines 376-378
nssComparator(l, r) == NsRank(l.ns) < NsRank(r.ns)

\* std::stable_sort's merge step on one element: e goes behind every element
\* of the sorted run that it is not less than.
RECURSIVE InsertSorted(_, _)
InsertSorted(sorted, e) ==
    IF sorted = <<>> THEN <<e>>
    ELSE IF nssComparator(e, Head(sorted)) THEN <<e>> \o sorted
    ELSE <<Head(sorted)>> \o InsertSorted(Tail(sorted), e)

RECURSIVE SortFrom(_, _, _)
SortFrom(sorted, v, k) ==
    IF k > Len(v) THEN sorted
    ELSE SortFrom(InsertSorted(sorted, v[k]), v, k + 1)

\* stableSortByNamespace (lines 372-380)
stableSortByNamespace(oplogEntryPointers) ==
    IF Len(oplogEntryPointers) < 1 THEN oplogEntryPointers
    ELSE SortFrom(<<>>, oplogEntryPointers, 1)

StatusCodes(outcomes) == {out.code : out \in {o \in outcomes : o.how = "status"}}
ThrownCodes(outcomes) == {out.code : out \in {o \in outcomes : o.how = "throw"}}

\* What a call of syncApply hands to its caller for an op of type t in mode md:
\* a Status or an exception, and by how much it moved the ops-applied counter.
\* A WriteConflict of a CRUD op is retried inside (lines 309-311, 334); a
\* NamespaceNotFound thrown for a CRUD op becomes OK or leaves syncApply (lines
\* 345-358); a command's Status is returned as it is, counted (lines 361-366).
SyncApplyResults(t, md) ==
    IF t = "n" THEN {[how |-> "status", code |-> "OK", counted |-> 1]}
    ELSE IF t \in CrudTypes
    THEN {[how |-> "status", code |-> c, counted |-> IF c = "OK" THEN 1 ELSE 0] :
              c \in StatusCodes(ApplyOutcomes) \ {"WriteConflict"}}
         \cup {[how |-> "throw", code |-> c, counted |-> 0] :
                   c \in ThrownCodes(ApplyOutcomes)
                             \ {"WriteConflict", "NamespaceNotFound"}}
         \cup (IF IgnoresNamespaceNotFound(t, md)
               THEN {[how |-> "status", code |-> "OK", counted |-> 0]}
               ELSE {[how |-> "throw", code |-> "NamespaceNotFound",
                      counted |-> 0]})
    ELSE {[how |-> "status", code |-> c, counted |-> 1] :
              c \in StatusCodes(CommandOutcomes)}
         \cup {[how |-> "throw", code |-> c, counted |-> 0] :
                   c \in ThrownCodes(CommandOutcomes) \ {"WriteConflict"}}

\* InsertGroup::groupAndApplyInserts(it): the places at which a group that
\* starts at it may end: a run of at least two consecutive inserts into one
\* collection, none of them marked isForCappedCollection.
GroupEnds(v, i) ==
    {e \in (i + 1)..Len(v) :
        \A k \in i..e : /\ v[k].opType = "i" /\ v[k].ns = v[i].ns
                        /\ ~v[k].isForCappedCollection}

\* A test that skips a failed update in every mode.
SkipsStatusAnyMode(code, md) == code = "UpdateOperationFailed"

\* Lines 435-436
SkipsStatus(code, md) == code = "UpdateOperationFailed" /\ md = "InitialSync"

\* A test that skips a NamespaceNotFound whatever the options say.
SkipsExceptionUnasked(code, entry, allow) ==
    code = "NamespaceNotFound" /\ isCrudOpType(entry)

\* Lines 447-448
SkipsException(code, entry, allow) ==
    code = "NamespaceNotFound" /\ isCrudOpType(entry) /\ allow

\* A conversion that loses the code of the exception.
toStatusUnknown(code) == "UnknownError"

\* Line 454: e.toStatus()
toStatus(code) == code

\* A block exit that leaves the tracker as it is.
TrackingKeptAtBlockExit(tracking) == tracking

\* Line 414: the ON_BLOCK_EXIT of the loop's block stops the tracker, however
\* the block is left.
TrackingAfterBlockExit(tracking) == FALSE

\* The MultikeyPathTracker while an op is applied: it may record a path for the
\* collection of an insert or update, if it is tracking.
PathsAfter(info, entry, tracking) ==
    IF tracking /\ entry.opType \in {"i", "u"}
    THEN {info, Append(info, entry.ns)}
    ELSE {info}

\* Lines 461-464
HandOff(workerInfo, newPaths) ==
    IF newPaths # <<>> THEN newPaths ELSE workerInfo

\* Lines 389-415: the vector is sorted, the tracker starts tracking.
WorkerStart ==
    /\ wPc = "start"
    /\ workerOps' = stableSortByNamespace(workerOps)
    /\ isTrackingMultikeyPathInfo' = TRUE
    /\ it' = 1
    /\ wPc' = "loop"
    /\ UNCHANGED <<allowNamespaceNotFoundErrorsOnCrudOps, applyLog, workerStatus,
                   multikeyPathInfo, workerMultikeyPathInfo>>
    /\ UNCHANGED <<fillVars, applyVars>>

\* A loop that goes on at the last op of the group.
AfterGroupAtLast(e) == e

\* Lines 424-425: it = groupResult.getValue(), the last op of the group, and
\* the continue runs the ++it of the for statement.
AfterGroup(e) == e + 1

\* The log of a group applied from place i to place e.
LogGroup(i, e) ==
    [k \in 1..(e - i + 1) |-> [at |-> i + k - 1, how |-> "group", code |-> "OK"]]

\* Lines 422-426: a group of inserts starting at it is applied as one, and the
\* iterator goes to the op behind the group.
GroupInserts ==
    /\ wPc = "loop" /\ it <= Len(workerOps)
    /\ \E e \in GroupEnds(workerOps, it) :
          /\ applyLog' = applyLog \o LogGroup(it, e)
          /\ opsAppliedStats' = opsAppliedStats + (e - it + 1)
          /\ multikeyPathInfo' \in PathsAfter(multikeyPathInfo, workerOps[it],
                                              isTrackingMultikeyPathInfo)
          /\ it' = AfterGroup(e)
    /\ UNCHANGED <<allowNamespaceNotFoundErrorsOnCrudOps, workerOps, wPc,
                   workerStatus, isTrackingMultikeyPathInfo, workerMultikeyPathInfo>>
    /\ UNCHANGED <<saPc, opType, collLocked, applyCalls, commandCalls, writeConflicts,
                   lastOutcome, status, thrown, now, applyStartTime, gateLeftAt,
                   slowOpLog>>
    /\ UNCHANGED fillVars

\* Lines 428-455: the op at it is applied by syncApply; the worker goes on
\* after a success or a skipped error and returns the error otherwise.
ApplyEntry ==
    /\ wPc = "loop" /\ it <= Len(workerOps)
    /\ \E r \in SyncApplyResults(workerOps[it].opType, mode) :
          /\ opsAppliedStats' = opsAppliedStats + r.counted
          /\ applyLog' = Append(applyLog, [at |-> it, how |-> r.how, code |-> r.code])
          /\ IF r.how = "status" /\ r.code = "OK"
             THEN /\ multikeyPathInfo' \in
                         (IF r.counted = 1
                          THEN PathsAfter(multikeyPathInfo, workerOps[it],
                                          isTrackingMultikeyPathInfo)
                          ELSE {multikeyPathInfo})
                  /\ it' = it + 1
                  /\ UNCHANGED <<wPc, workerStatus, isTrackingMultikeyPathInfo>>
             ELSE IF (r.how = "status" /\ SkipsStatus(r.code, mode))
                     \/ (r.how = "throw"
                            /\ SkipsException(r.code, workerOps[it],
                                              allowNamespaceNotFoundErrorsOnCrudOps))
             THEN /\ it' = it + 1
                  /\ UNCHANGED <<wPc, workerStatus, isTrackingMultikeyPathInfo,
                                 multikeyPathInfo>>
             ELSE /\ workerStatus' = IF r.how = "throw" THEN toStatus(r.code)
                                     ELSE r.code
                  /\ isTrackingMultikeyPathInfo' =
                         TrackingAfterBlockExit(isTrackingMultikeyPathInfo)
                  /\ wPc' = "returned"
                  /\ UNCHANGED <<it, multikeyPathInfo>>
    /\ UNCHANGED <<allowNamespaceNotFoundErrorsOnCrudOps, workerOps,
                   workerMultikeyPathInfo>>
    /\ UNCHANGED <<saPc, opType, collLocked, applyCalls, commandCalls, writeConflicts,
                   lastOutcome, status, thrown, now, applyStartTime, gateLeftAt,
                   slowOpLog>>
    /\ UNCHANGED fillVars

\* Lines 456-466: the loop has reached the end of the vector; the tracker is
\* stopped and what it collected is handed to the caller.
WorkerReturn ==
    /\ wPc = "loop" /\ it > Len(workerOps)
    /\ isTrackingMultikeyPathInfo' = TrackingAfterBlockExit(isTrackingMultikeyPathInfo)
    /\ workerMultikeyPathInfo' = HandOff(workerMultikeyPathInfo, multikeyPathInfo)
    /\ workerStatus' = "OK"
    /\ wPc' = "returned"
    /\ UNCHANGED <<allowNamespaceNotFoundErrorsOnCrudOps, workerOps, it, applyLog,
                   multikeyPathInfo>>
    /\ UNCHANGED <<fillVars, applyVars>>

NextWorker == WorkerStart \/ GroupInserts \/ ApplyEntry \/ WorkerReturn

\* A writer thread is given a vector of the batch; nothing else is running.
InitWorker ==
    /\ mode \in Modes
    /\ supportsDocLocking = TRUE
    /\ beginApplyingOpTime = 0
    /\ ops = <<>>
    /\ writerVectors = [w \in 1..NumWriters |-> <<>>]
    /\ derivedOps = <<>>
    /\ partialTxnOps = NoPartial
    /\ sessionUpdateTracker = NoPending
    /\ trackerInputs = <<>>
    /\ collPropertiesCache = EmptyCache
    /\ pc = "done"
    /\ SyncApplyIdle
    /\ allowNamespaceNotFoundErrorsOnCrudOps \in BOOLEAN
    /\ workerOps \in UNION {WorkerVectors(n) : n \in 0..MaxBatch}
    /\ wPc = "start"
    /\ it = 0
    /\ applyLog = <<>>
    /\ workerStatus = "none"
    /\ isTrackingMultikeyPathInfo = FALSE
    /\ multikeyPathInfo = <<>>
    /\ workerMultikeyPathInfo = <<>>

SpecWorker == InitWorker /\ [][NextWorker]_vars

\* ------------------------------------------------------- reading a state
Writers == 1..NumWriters

OpAt(ptr) == Deref(State, ptr)

\* The places of ptr in writer vector w.
Places(ptr, w) == {k \in 1..Len(writerVectors[w]) : writerVectors[w][k] = ptr}

Routed(ptr) == \E w \in Writers : Places(ptr, w) # {}

RoutedPtrs == UNION {{writerVectors[w][k] : k \in 1..Len(writerVectors[w])} : w \in Writers}

\* ptr is in exactly one writer vector, exactly once, and that vector is w.
RoutedOnceTo(ptr, w) ==
    /\ Cardinality(Places(ptr, w)) = 1
    /\ \A v \in Writers \ {w} : Places(ptr, v) = {}

\* a and b are in the same writer vector, a before b.
SameVectorBefore(a, b) ==
    \E w \in Writers : \E i \in Places(a, w) : \E j \in Places(b, w) : i < j

AboveFloor(i) == ops[i].opTime > beginApplyingOpTime

\* Two CRUD ops that have to be applied in order: the same document, or the
\* same collection where the collection is capped or the engine has no
\* document locking.
SameDocument(a, b) ==
    /\ a.opType \in {"i", "u", "d"} /\ b.opType \in {"i", "u", "d"}
    /\ a.ns = b.ns
    /\ (a.id = b.id \/ a.ns \in CappedCollections \/ ~supportsDocLocking)

\* C1 as stated: for CRUD ops a before b of the batch on the same document,
\* after fillWriterVectors either both are in one writer vector with a before
\* b, or b is in no writer vector.
C1_SameDocumentAsStated ==
    pc = "done" =>
        \A i, j \in 1..Len(ops) :
            (i < j /\ SameDocument(ops[i], ops[j])) =>
                \/ SameVectorBefore(Ptr(0, i), Ptr(0, j))
                \/ ~Routed(Ptr(0, j))

\* C1 as amended: the same, for an op a that is itself above the floor (an a
\* at or below beginApplyingOpTime is in no writer vector while a later b is).
C1_SameDocumentSerialized ==
    pc = "done" =>
        \A i, j \in 1..Len(ops) :
            (i < j /\ SameDocument(ops[i], ops[j]) /\ AboveFloor(i)) =>
                \/ SameVectorBefore(Ptr(0, i), Ptr(0, j))
                \/ ~Routed(Ptr(0, j))

\* Two ops of one capped collection with different _id, and two ops of one
\* document, were routed on a doc-locking engine with more than one vector used.
C1_Witness ==
    /\ pc = "done" /\ supportsDocLocking
    /\ \E i, j \in 1..Len(ops) :
          /\ i < j /\ ops[i].ns = NsK /\ ops[j].ns = NsK /\ ops[i].id # ops[j].id
          /\ ops[i].opType = "i" /\ ops[j].opType = "i"
          /\ SameVectorBefore(Ptr(0, i), Ptr(0, j))
    /\ \E i \in 1..Len(ops) : \E w \in Writers :
          /\ ops[i].ns = NsC /\ isCrudOpType(ops[i]) /\ Routed(Ptr(0, i))
          /\ Places(Ptr(0, i), w) = {} /\ writerVectors[w] # <<>>

\* C2: no op with opTime <= beginApplyingOpTime is in any writer vector, be it
\* an op of the batch or a derived op.
C2_FloorFilter ==
    \A ptr \in RoutedPtrs : OpAt(ptr).opTime > beginApplyingOpTime

\* An entry of the batch was filtered by the floor, and both an op of the batch
\* and a derived op were routed.
C2_Witness ==
    /\ pc = "done"
    /\ \E i \in 1..Len(ops) : ~AboveFloor(i) /\ ~Routed(Ptr(0, i))
    /\ \E ptr \in RoutedPtrs : ptr.pool = 0
    /\ \E ptr \in RoutedPtrs : ptr.pool # 0

\* ------------------------------------------------ transactions in a batch
\* The entry is one the scan keeps back until its transaction ends.
HeldBack(op) ==
    op.kind = "partial" \/ (op.kind = "prepare" /\ mode = "InitialSync")

\* The entry at t ends a transaction of session s: a terminal applyOps, or a
\* prepared commit during initial sync.
EndsTransaction(t, s) ==
    /\ AboveFloor(t) /\ ops[t].sid = s
    /\ (ops[t].kind = "applyOps" \/ (ops[t].kind = "commit" /\ mode = "InitialSync"))

AbortsTransaction(t, s) ==
    AboveFloor(t) /\ ops[t].sid = s /\ ops[t].kind = "abort"

\* The entries of the batch that belong to the transaction the entry at t ends.
ChainEntries(t) ==
    {e \in 1..(t - 1) :
        /\ HeldBack(ops[e]) /\ ops[e].sid = ops[t].sid /\ AboveFloor(e)
        /\ ~\E r \in (e + 1)..(t - 1) :
              EndsTransaction(r, ops[t].sid) \/ AbortsTransaction(r, ops[t].sid)}

Operations(e) ==
    [k \in 1..Len(ops[e].inner) |->
        [opType |-> ops[e].inner[k].opType, ns |-> ops[e].inner[k].ns,
         id |-> ops[e].inner[k].id, entry |-> e]]

\* The operations of the transaction that ends at t, in oplog order.
RECURSIVE ChainOperations(_, _)
ChainOperations(e, t) ==
    IF e > t THEN <<>>
    ELSE (IF e = t \/ e \in ChainEntries(t) THEN Operations(e) ELSE <<>>)
             \o ChainOperations(e + 1, t)

PoolOperations(p) ==
    [k \in 1..Len(derivedOps[p]) |->
        [opType |-> derivedOps[p][k].opType, ns |-> derivedOps[p][k].ns,
         id |-> derivedOps[p][k].id, entry |-> derivedOps[p][k].entry]]

\* The writer an op goes to when routed by its own namespace and _id.
OwnWriter(op) ==
    LET h == NsHash(op.ns)
        mixed == IF op.opType \in {"i", "u", "d"} /\ supportsDocLocking
                    /\ op.ns \notin CappedCollections
                 THEN MurmurHash3_x86_32(IdHash(op.id), h) ELSE h
    IN  (mixed % NumWriters) + 1

\* Every op of pool p is in the writer vector of its own hash, once, and the
\* ops of the pool that share a vector are there in pool order.
PoolRoutedInOrder(p) ==
    /\ \A j \in 1..Len(derivedOps[p]) :
          RoutedOnceTo(Ptr(p, j), OwnWriter(derivedOps[p][j]))
    /\ \A j, k \in 1..Len(derivedOps[p]) : \A w \in Writers :
          (j < k /\ Places(Ptr(p, j), w) # {} /\ Places(Ptr(p, k), w) # {}) =>
              SameVectorBefore(Ptr(p, j), Ptr(p, k))

\* The scan has just processed the entry at the end of ops.
JustProcessed(kind) ==
    /\ pc = "scan" /\ Len(ops) > 0
    /\ ops[Len(ops)].kind = kind /\ AboveFloor(Len(ops))

\* The transaction ending at the last entry was materialized: its operations,
\* in chain order, are the last pool and are routed; its buffer is empty; the
\* ending entry is in no writer vector.
Materialized ==
    LET t == Len(ops) IN
    /\ derivedOps # <<>>
    /\ PoolOperations(Len(derivedOps)) = ChainOperations(1, t)
    /\ PoolRoutedInOrder(Len(derivedOps))
    /\ partialTxnOps[ops[t].sid] = <<>>
    /\ ~Routed(Ptr(0, t))

\* C3: at every point of the scan, an entry that is kept back (a partial
\* transaction entry, or a prepare during initial sync) is in no writer vector,
\* none of its operations is in a writer vector unless the entry ending its
\* session's transaction has been processed, and an abortTransaction leaves
\* its session's partial list empty.
C3_PartialDeferred ==
    /\ \A e \in 1..Len(ops) :
          HeldBack(ops[e]) =>
              /\ ~Routed(Ptr(0, e))
              /\ \A ptr \in RoutedPtrs :
                    (ptr.pool # 0 /\ OpAt(ptr).entry = e) =>
                        \E t \in (e + 1)..Len(ops) : EndsTransaction(t, ops[e].sid)
    /\ JustProcessed("abort") => partialTxnOps[ops[Len(ops)].sid] = <<>>

\* A partial entry is buffered and not yet ended, and another one of a second
\* session has had its operations routed by its terminal applyOps.
C3_Witness ==
    /\ pc = "scan"
    /\ \E e \in 1..Len(ops) :
          /\ ops[e].kind = "partial" /\ AboveFloor(e)
          /\ partialTxnOps[ops[e].sid] # <<>>
          /\ ~\E t \in (e + 1)..Len(ops) : EndsTransaction(t, ops[e].sid)
    /\ \E e \in 1..Len(ops) : \E ptr \in RoutedPtrs :
          ops[e].kind = "partial" /\ ptr.pool # 0 /\ OpAt(ptr).entry = e

\* C4: when a terminal applyOps with session and txn number is processed, the
\* flattened operations of the chain (the buffered entries of the session, then
\* the terminal entry) are routed in chain order, each by its own hash; the
\* session's buffer is empty afterwards; the terminal entry is not routed.
C4_TransactionMaterialized ==
    (JustProcessed("applyOps") /\ ops[Len(ops)].sid # 0) => Materialized

\* Two partial entries and the terminal applyOps of one session: the pool has
\* the operations of all three and they went to more than one writer vector.
C4_Witness ==
    /\ JustProcessed("applyOps") /\ Len(ops) = 3
    /\ ops[3].sid # 0
    /\ ChainEntries(3) = {1, 2}
    /\ Len(derivedOps[Len(derivedOps)]) >= 3
    /\ \E j, k \in 1..Len(derivedOps[Len(derivedOps)]) :
          OwnWriter(derivedOps[Len(derivedOps)][j])
              # OwnWriter(derivedOps[Len(derivedOps)][k])

\* The batch is: partial entries of one session S, S's abortTransaction at t,
\* then inserts that belong to no session.
AbortScenario(t) ==
    /\ t \in 2..Len(ops) /\ ops[t].kind = "abort"
    /\ \A e \in 1..(t - 1) : ops[e].kind = "partial" /\ ops[e].sid = ops[t].sid
    /\ \A j \in (t + 1)..Len(ops) :
          ops[j].kind = "crud" /\ ops[j].opType = "i" /\ ops[j].sid = 0

\* C5 as stated: in a batch of partial entries of session S, then S's
\* abortTransaction, then unrelated inserts, fillWriterVectors routes only the
\* unrelated inserts: no entry of the session, the abort entry included, is in
\* a writer vector.
C5_OnlyUnrelatedRouted ==
    (pc = "done" /\ beginApplyingOpTime = 0) =>
        \A t \in 1..Len(ops) :
            AbortScenario(t) =>
                \A ptr \in RoutedPtrs : ptr.pool = 0 => ptr.idx > t

\* e is kept back and the next entry to end or abort its session's transaction
\* is the abortTransaction at t.
AbortedAt(e, t) ==
    /\ e < t /\ HeldBack(ops[e]) /\ AboveFloor(e) /\ AbortsTransaction(t, ops[e].sid)
    /\ ~\E r \in (e + 1)..(t - 1) : EndsTransaction(r, ops[e].sid)

\* C5 as amended: an entry kept back for a session whose transaction is then
\* aborted is never in a writer vector, and none of its operations is, whatever
\* follows the abort; the abortTransaction entry itself is routed, once, by the
\* hash of its namespace.
C5_AbortDiscardsPartial ==
    /\ \A e, t \in 1..Len(ops) :
          AbortedAt(e, t) =>
              /\ ~Routed(Ptr(0, e))
              /\ \A ptr \in RoutedPtrs : ptr.pool # 0 => OpAt(ptr).entry # e
    /\ \A t \in 1..Len(ops) :
          (ops[t].kind = "abort" /\ AboveFloor(t)) =>
              RoutedOnceTo(Ptr(0, t), OwnWriter(ops[t]))

\* A partial entry, its session's abort, then a terminal applyOps of the same
\* session whose operations were routed.
C5_Witness ==
    /\ JustProcessed("applyOps") /\ Len(ops) = 3
    /\ AbortedAt(1, 2) /\ ops[3].sid = ops[1].sid
    /\ \E ptr \in RoutedPtrs : ptr.pool # 0 /\ OpAt(ptr).entry = 3

AllPtrs ==
    {Ptr(0, i) : i \in 1..Len(ops)}
    \cup UNION {{Ptr(p, j) : j \in 1..Len(derivedOps[p])} : p \in 1..Len(derivedOps)}

\* C8: an op carries isForCappedCollection exactly when it is an insert into a
\* capped collection that was placed in a writer vector, be it an op of the
\* batch or a derived op, on any engine.
C8_CappedInsertMarked ==
    \A ptr \in AllPtrs :
        OpAt(ptr).isForCappedCollection
            <=> (Routed(ptr) /\ OpAt(ptr).opType = "i"
                    /\ OpAt(ptr).ns \in CappedCollections)

\* On an engine without doc locking: a marked insert of the batch, a marked
\* derived insert, and a routed insert into a collection that is not capped.
C8_Witness ==
    /\ ~supportsDocLocking
    /\ \E ptr \in RoutedPtrs : ptr.pool = 0 /\ OpAt(ptr).isForCappedCollection
    /\ \E ptr \in RoutedPtrs : ptr.pool # 0 /\ OpAt(ptr).isForCappedCollection
    /\ \E ptr \in RoutedPtrs :
          OpAt(ptr).opType = "i" /\ OpAt(ptr).ns = NsC

\* ----------------------------------------------------- syncApply's claims
Finished == saPc \in {"returned", "threw"}

\* C9: for a CRUD op, when applyOperation_inlock reports WriteConflict N times
\* and then succeeds, syncApply returns OK having called applyOperation_inlock
\* N+1 times; every attempt starts with the locks of the attempt before
\* released, each conflict having been followed by one more call.
C9_WriteConflictRetry ==
    /\ (Finished /\ opType \in CrudTypes
            /\ lastOutcome = [how |-> "status", code |-> "OK"]) =>
          /\ saPc = "returned" /\ status = "OK" /\ thrown = "none"
          /\ applyCalls = writeConflicts + 1
    /\ saPc = "open" => (~collLocked /\ applyCalls = writeConflicts)
    /\ saPc = "apply" => (collLocked /\ applyCalls = writeConflicts)

\* Two WriteConflicts, then success: OK after three calls.
C9_Witness ==
    /\ saPc = "returned" /\ opType \in CrudTypes /\ status = "OK"
    /\ lastOutcome = [how |-> "status", code |-> "OK"]
    /\ writeConflicts = 2 /\ applyCalls = 3

\* C10: for a CRUD op, a NamespaceNotFound thrown while opening the collection
\* or database or while applying the op ends syncApply with OK exactly when the
\* op is a delete or the mode is Recovering; otherwise the exception leaves
\* syncApply and no status is returned.
C10_NamespaceNotFoundPolicy ==
    (Finished /\ opType \in CrudTypes /\ lastOutcome.code = "NamespaceNotFound"
        /\ lastOutcome.how # "status") =>
        IF opType = "d" \/ mode = "Recovering"
        THEN saPc = "returned" /\ status = "OK" /\ thrown = "none"
        ELSE saPc = "threw" /\ thrown = "NamespaceNotFound" /\ status = "none"

\* A delete whose collection is unknown returned OK on a secondary.
C10_Witness ==
    /\ saPc = "returned" /\ opType = "d" /\ mode = "Secondary"
    /\ lastOutcome = [how |-> "uuid", code |-> "NamespaceNotFound"]
    /\ status = "OK" /\ applyCalls = 0

\* What the call of syncApply that has ended handed to its caller.
SyncApplyResult ==
    [how |-> IF saPc = "returned" THEN "status" ELSE "throw",
     code |-> IF saPc = "returned" THEN status ELSE thrown,
     counted |-> opsAppliedStats]

\* Every call of syncApply ends with one of the results SyncApplyResults names.
SyncApplySummarized ==
    Finished => SyncApplyResult \in SyncApplyResults(opType, mode)

\* ------------------------------------------------- logging and counting
\* The time finishAndLogApply would measure at this point of the call.
Elapsed == now - applyStartTime

TagOf(t) == IF t = "c" THEN "command" ELSE "CRUD"

C17_NoopApplied ==
    opType = "n" =>
        /\ ~collLocked /\ applyCalls = 0 /\ commandCalls = 0
        /\ saPc \in {"gate", "noop", "returned"}
        /\ saPc = "returned" => (status = "OK" /\ opsAppliedStats = 1)
        /\ saPc # "returned" => (status = "none" /\ opsAppliedStats = 0)

\* A Noop has been applied.
C17_Witness ==
    /\ opType = "n" /\ saPc = "returned" /\ status = "OK"
    /\ opsAppliedStats = 1 /\ applyCalls = 0 /\ commandCalls = 0

\* C18 as stated: the elapsed time compared against slowMS runs from the
\* moment the fail point lets the caller go to the completion, so the time
\* spent blocked in the fail point is not counted.
C18_MeasuredFromGate ==
    (saPc = "returned" /\ opType # "n" /\ status = "OK") =>
        (slowOpLog # <<>> <=> now - gateLeftAt > slowMS)

\* C18 as amended: the elapsed time compared against slowMS runs from the
\* start time recorded before the fail-point gate to the completion, so it is
\* the time spent blocked in the fail point plus the time of the application.
C18_MeasuredFromStart ==
    /\ saPc \notin {"idle", "gate"} => applyStartTime <= gateLeftAt
    /\ (saPc = "returned" /\ opType # "n" /\ status = "OK") =>
          /\ slowOpLog # <<>>
                 <=> (gateLeftAt - applyStartTime) + (now - gateLeftAt) > slowMS
          /\ \A k \in DOMAIN slowOpLog :
                slowOpLog[k].diffMS
                    = (gateLeftAt - applyStartTime) + (now - gateLeftAt)

\* A CRUD op that was applied in no time after a long wait in the fail point
\* was reported as slow.
C18_Witness ==
    /\ saPc = "returned" /\ opType \in CrudTypes /\ status = "OK"
    /\ gateLeftAt - applyStartTime > slowMS
    /\ now = gateLeftAt
    /\ slowOpLog # <<>>

\* C19 as stated: syncApply never returns a WriteConflict status, for CRUD and
\* Command ops alike; every WriteConflict reported by applyOperation_inlock or
\* applyCommand_inlock, returned or thrown, is followed by a retry; for a
\* Command op the counter is incremented once if the op finally succeeds.
C19_WriteConflictTransparent ==
    /\ status # "WriteConflict" /\ thrown # "WriteConflict"
    /\ lastOutcome.code = "WriteConflict" => saPc \in {"open", "apply", "command"}
    /\ (Finished /\ opType = "c") =>
          opsAppliedStats = IF saPc = "returned" /\ status = "OK" THEN 1 ELSE 0

\* C19 as amended: for a CRUD op syncApply never returns a WriteConflict
\* status: every WriteConflict applyOperation_inlock reports, returned or
\* thrown, is followed by a retry.  For a Command op only a thrown
\* WriteConflict is retried; a WriteConflict status returned by
\* applyCommand_inlock is returned by syncApply as it is; and the counter is
\* incremented once for the call of applyCommand_inlock that returns, whatever
\* status it returns, and not for an attempt that throws.
C19_WriteConflictRetried ==
    /\ thrown # "WriteConflict"
    /\ opType \in CrudTypes =>
          /\ status # "WriteConflict"
          /\ lastOutcome.code = "WriteConflict" => saPc \in {"open", "apply"}
    /\ opType = "c" =>
          /\ lastOutcome = [how |-> "throw", code |-> "WriteConflict"]
                 => saPc = "command"
          /\ lastOutcome = [how |-> "status", code |-> "WriteConflict"]
                 => (saPc = "returned" /\ status = "WriteConflict")
          /\ opsAppliedStats = IF saPc = "returned" THEN 1 ELSE 0
          /\ saPc = "returned" => commandCalls = writeConflicts + 1

\* A command whose application threw a WriteConflict and then returned one:
\* syncApply returned WriteConflict after two calls, the counter incremented.
C19_Witness ==
    /\ opType = "c" /\ saPc = "returned" /\ status = "WriteConflict"
    /\ writeConflicts = 1 /\ commandCalls = 2 /\ opsAppliedStats = 1

\* ------------------------------------------------ session-update ops
\* A synthetic op: a write to the session table made by the tracker.
IsSynthetic(op) == op.ns = TxnTable

IsTrackerList(list) == list # <<>> /\ IsSynthetic(list[1])

\* The op lists of the tracker among the derived pools, in the order stored.
TrackerPools == SelectSeq(derivedOps, IsTrackerList)

BatchPtrs == [i \in 1..Len(ops) |-> Ptr(0, i)]

IsAboveFloorPtr(ptr) == AboveFloor(ptr.idx)

\* The lists updateSession returns for the entries of the batch from i on that
\* pass the floor: one update per entry of a transaction that is not kept back.
RECURSIVE ScanUpdates(_)
ScanUpdates(i) ==
    IF i > Len(ops) THEN <<>>
    ELSE (IF AboveFloor(i) /\ ops[i].sid # 0
             /\ ops[i].kind \in {"applyOps", "prepare", "commit", "abort"}
          THEN << <<SessionUpdate(ops[i].sid, i)>> >>
          ELSE <<>>) \o ScanUpdates(i + 1)

\* The retryable write of session s the tracker still remembers at the end of
\* the batch (0 if none).
PendingAt(s) ==
    LET seen == {i \in 1..Len(ops) :
                    AboveFloor(i) /\ ops[i].sid = s /\ ops[i].kind # "partial"}
        last == IF seen = {} THEN 0
                ELSE CHOOSE i \in seen : \A j \in seen : j <= i
    IN  IF last # 0 /\ ops[last].kind = "crud" THEN last ELSE 0

FlushUpdates ==
    LET list == flushAll([s \in Sessions |-> PendingAt(s)])
    IN  IF pc = "done" /\ list # <<>> THEN <<list>> ELSE <<>>

\* Every synthetic op is in a derived pool and in exactly one writer vector,
\* the one of its own hash.
SyntheticRoutedOnce ==
    \A ptr \in AllPtrs :
        IsSynthetic(OpAt(ptr)) =>
            ptr.pool # 0 /\ RoutedOnceTo(ptr, OwnWriter(OpAt(ptr)))

\* C20 as stated: every op list the tracker returns, from updateSession during
\* the scan and from flushAll at the end, is stored in the derived pool and
\* routed so that each synthetic op is in exactly one writer vector; the
\* tracker is never given a synthetic op; and the tracker is given every op of
\* the batch in input order.
C20_TrackerFedEveryOp ==
    /\ TrackerPools = ScanUpdates(1) \o FlushUpdates
    /\ SyntheticRoutedOnce
    /\ trackerInputs = BatchPtrs

\* C20 as amended: every op list the tracker returns is stored in the derived
\* pool and each synthetic op is in exactly one writer vector, the one of its
\* own hash (a list of updateSession is routed by addDerivedOps, the list of
\* flushAll by the second pass with the tracker disabled); the tracker is
\* never given a synthetic op; and the tracker is given, in input order, the
\* ops of the batch whose opTime is above beginApplyingOpTime, and no other.
C20_SyntheticOpsRouted ==
    /\ TrackerPools = ScanUpdates(1) \o FlushUpdates
    /\ SyntheticRoutedOnce
    /\ trackerInputs = SelectSeq(BatchPtrs, IsAboveFloorPtr)

\* The first entry is at the floor and was not given to the tracker; of the two
\* that were, one made updateSession return a list and the other left a write
\* for flushAll; both synthetic ops are routed.
C20_Witness ==
    /\ pc = "done" /\ Len(ops) = 3 /\ ~AboveFloor(1)
    /\ trackerInputs = <<Ptr(0, 2), Ptr(0, 3)>>
    /\ Len(ScanUpdates(1)) = 1 /\ Len(FlushUpdates) = 1
    /\ Len(TrackerPools) = 2
    /\ \A p \in 1..Len(derivedOps) :
          IsTrackerList(derivedOps[p]) => Routed(Ptr(p, 1))

\* ------------------------------------------------- the writer thread
WorkerDone == wPc = "returned"

\* The op the k-th record of the log is about.
LoggedOp(k) == workerOps[applyLog[k].at]

\* The worker went on to the next op after the k-th record.
WentOn(k) == it > applyLog[k].at

\* The worker returned on the k-th record, with that status: no op behind the
\* op of the record was applied.
Aborted(k, code) ==
    /\ WorkerDone /\ workerStatus = code
    /\ k = Len(applyLog) /\ it = applyLog[k].at

IsFailedUpdate(rec) == rec.how = "status" /\ rec.code = "UpdateOperationFailed"

\* C11: in InitialSync an UpdateOperationFailed status returned by syncApply
\* is skipped and the worker goes on with the next op: for the vector [update
\* U of a missing document, delete D of the same _id] it returns OK with D
\* applied and U skipped; in Secondary and Recovering the same status makes
\* the worker return that status.
C11_MissingDocumentUpdateSkipped ==
    /\ \A k \in DOMAIN applyLog :
          IsFailedUpdate(applyLog[k]) =>
              IF mode = "InitialSync" THEN WentOn(k)
              ELSE Aborted(k, "UpdateOperationFailed")
    /\ (WorkerDone /\ mode = "InitialSync" /\ Len(workerOps) = 2
            /\ workerOps[1].opType = "u" /\ workerOps[2].opType = "d"
            /\ Len(applyLog) = 2 /\ IsFailedUpdate(applyLog[1])
            /\ applyLog[2].code = "OK") =>
          (workerStatus = "OK" /\ applyLog[2].at = 2 /\ opsAppliedStats <= 1)

\* InitialSync, the vector [U, D]: U failed and was skipped, D was applied and
\* counted, the worker returned OK.
C11_Witness ==
    /\ WorkerDone /\ mode = "InitialSync" /\ workerStatus = "OK"
    /\ Len(workerOps) = 2
    /\ workerOps[1].opType = "u" /\ workerOps[2].opType = "d"
    /\ workerOps[1].id = workerOps[2].id
    /\ applyLog = <<[at |-> 1, how |-> "status", code |-> "UpdateOperationFailed"],
                    [at |-> 2, how |-> "status", code |-> "OK"]>>
    /\ opsAppliedStats = 1

IsNamespaceNotFound(rec) == rec.code = "NamespaceNotFound"

\* C12 as stated: with allowNamespaceNotFoundErrorsOnCrudOps set, a
\* NamespaceNotFound met while applying a CRUD op never ends the worker, be it
\* thrown or returned as a status: the op is skipped; without the flag, or for
\* an op that is not CRUD, it ends the worker.
C12_NamespaceNotFoundSkippedEitherWay ==
    \A k \in DOMAIN applyLog :
        IsNamespaceNotFound(applyLog[k]) =>
            IF allowNamespaceNotFoundErrorsOnCrudOps /\ isCrudOpType(LoggedOp(k))
            THEN WentOn(k)
            ELSE Aborted(k, "NamespaceNotFound")

\* C12 as amended: with allowNamespaceNotFoundErrorsOnCrudOps set, a
\* NamespaceNotFound that reaches the worker as an exception thrown while
\* applying a CRUD op never ends the worker: the op is skipped; a
\* NamespaceNotFound that syncApply returns as a status ends the worker with
\* that status, as does any NamespaceNotFound without the flag or for an op
\* that is not CRUD.
C12_ThrownNamespaceNotFoundSkipped ==
    \A k \in DOMAIN applyLog :
        IsNamespaceNotFound(applyLog[k]) =>
            IF applyLog[k].how = "throw" /\ allowNamespaceNotFoundErrorsOnCrudOps
                   /\ isCrudOpType(LoggedOp(k))
            THEN WentOn(k)
            ELSE Aborted(k, "NamespaceNotFound")

\* With the flag set: the NamespaceNotFound thrown for one CRUD op was skipped
\* and the one returned as a status for a later CRUD op ended the worker.
C12_Witness ==
    /\ allowNamespaceNotFoundErrorsOnCrudOps /\ WorkerDone
    /\ workerStatus = "NamespaceNotFound"
    /\ \E k \in DOMAIN applyLog :
          /\ k < Len(applyLog) /\ isCrudOpType(LoggedOp(k))
          /\ applyLog[k].how = "throw" /\ IsNamespaceNotFound(applyLog[k])
    /\ isCrudOpType(LoggedOp(Len(applyLog)))
    /\ applyLog[Len(applyLog)].how = "status"

\* The error of the k-th record is one of the two the worker skips.
Skippable(k) ==
    \/ /\ applyLog[k].how = "status" /\ applyLog[k].code = "UpdateOperationFailed"
       /\ mode = "InitialSync"
    \/ /\ applyLog[k].how = "throw" /\ applyLog[k].code = "NamespaceNotFound"
       /\ isCrudOpType(LoggedOp(k)) /\ allowNamespaceNotFoundErrorsOnCrudOps

NonSkippable(k) == applyLog[k].code # "OK" /\ ~Skippable(k)

\* C13: on the first op whose application yields an error that is not
\* skippable the worker returns exactly that error's status and applies no op
\* behind it in the sorted vector; without such an error it returns OK, every
\* op of the vector having been applied or skipped.
C13_FailFast ==
    /\ \A k \in DOMAIN applyLog :
          NonSkippable(k) => Aborted(k, applyLog[k].code)
    /\ WorkerDone =>
          IF \E k \in DOMAIN applyLog : NonSkippable(k)
          THEN workerStatus # "OK"
          ELSE /\ workerStatus = "OK"
               /\ Len(applyLog) = Len(workerOps)
               /\ \A k \in DOMAIN applyLog : applyLog[k].at = k

\* The second of three ops threw BadValue: the worker returned BadValue, the
\* first op applied, the third not touched.
C13_Witness ==
    /\ WorkerDone /\ Len(workerOps) = 3 /\ workerStatus = "BadValue"
    /\ Len(applyLog) = 2
    /\ applyLog[1].code = "OK"
    /\ applyLog[2] = [at |-> 2, how |-> "throw", code |-> "BadValue"]

\* C14: the worker applies its vector in the order of a stable sort by
\* namespace: the sequence is non-decreasing in namespace, two ops of one
\* namespace keep the order they had before the sort, no op is lost or
\* repeated, and the ops are applied from the front to the back.
C14_StableNamespaceOrder ==
    wPc \in {"loop", "returned"} =>
        /\ \A i, j \in DOMAIN workerOps :
              i < j => /\ NsRank(workerOps[i].ns) <= NsRank(workerOps[j].ns)
                       /\ workerOps[i].ns = workerOps[j].ns
                              => workerOps[i].opTime < workerOps[j].opTime
        /\ \A t \in DOMAIN workerOps :
              Cardinality({i \in DOMAIN workerOps : workerOps[i].opTime = t}) = 1
        /\ \A k, l \in DOMAIN applyLog :
              k < l => applyLog[k].at < applyLog[l].at

\* The op that was second came first, and the two ops of one namespace around
\* it kept their order; all three were applied.
C14_Witness ==
    /\ WorkerDone /\ Len(workerOps) = 3 /\ Len(applyLog) = 3
    /\ workerOps[1].opTime = 2 /\ workerOps[2].opTime = 1 /\ workerOps[3].opTime = 3
    /\ workerOps[2].ns = workerOps[3].ns

\* C15: when multiSyncApply returns OK the caller's workerMultikeyPathInfo,
\* empty on entry, is what the tracker collected during this apply (paths of
\* collections of ops that were applied); on every return the tracker is no
\* longer tracking, and on an error return workerMultikeyPathInfo is as it was.
C15_MultikeyHandOff ==
    /\ wPc = "loop" => (isTrackingMultikeyPathInfo /\ workerMultikeyPathInfo = <<>>)
    /\ WorkerDone =>
          /\ ~isTrackingMultikeyPathInfo
          /\ workerMultikeyPathInfo
                 = IF workerStatus = "OK" THEN multikeyPathInfo ELSE <<>>
    /\ \A p \in DOMAIN multikeyPathInfo :
          \E k \in DOMAIN applyLog :
              applyLog[k].code = "OK" /\ LoggedOp(k).ns = multikeyPathInfo[p]

\* The worker returned OK and handed over two paths.
C15_Witness ==
    /\ WorkerDone /\ workerStatus = "OK"
    /\ Len(multikeyPathInfo) = 2
    /\ workerMultikeyPathInfo = multikeyPathInfo
    /\ ~isTrackingMultikeyPathInfo

\* ------------------------------------------------ the partition as a whole
\* What decides the writer of a CRUD op: namespace and _id on a doc-locking
\* engine for a collection that is not capped, the namespace alone otherwise.
RoutingKey(op) ==
    IF supportsDocLocking /\ op.ns \notin CappedCollections
    THEN <<op.ns, op.id>>
    ELSE <<op.ns>>

\* The writer vectors that hold ptr.
WritersOf(ptr) == {w \in Writers : Places(ptr, w) # {}}

\* C21: after fillWriterVectors no two distinct writer vectors hold CRUD ops
\* with the same routing key, be they ops of the batch or derived ops (of
\* transactions, of applyOps, session updates): all CRUD ops of one key are in
\* one vector.
C21_CrossWorkerDisjoint ==
    pc = "done" =>
        \A a, b \in RoutedPtrs :
            (isCrudOpType(OpAt(a)) /\ isCrudOpType(OpAt(b))
                /\ RoutingKey(OpAt(a)) = RoutingKey(OpAt(b))) =>
                WritersOf(a) = WritersOf(b)

\* On a doc-locking engine an op of the batch and a derived op of the same
\* document share a vector, and a CRUD op of another key is in another vector.
C21_Witness ==
    /\ pc = "done" /\ supportsDocLocking
    /\ \E a, b \in RoutedPtrs :
          /\ a.pool = 0 /\ b.pool # 0
          /\ isCrudOpType(OpAt(a)) /\ isCrudOpType(OpAt(b))
          /\ ~IsSynthetic(OpAt(b))
          /\ RoutingKey(OpAt(a)) = RoutingKey(OpAt(b))
          /\ WritersOf(a) = WritersOf(b)
          /\ \E c \in RoutedPtrs :
                isCrudOpType(OpAt(c)) /\ WritersOf(c) # WritersOf(a)

\* The entry at i is one the scan hands to addToWriterVector itself: above the
\* floor, not kept back for its transaction, and not replaced by the operations
\* it carries or ends (a terminal applyOps, a prepared commit in initial sync).
RoutedAsItself(i) ==
    /\ AboveFloor(i)
    /\ ~HeldBack(ops[i])
    /\ ~isTerminalApplyOps(ops[i])
    /\ ~(isPreparedCommit(ops[i]) /\ mode = "InitialSync")

\* C22: after fillWriterVectors, started on empty writer vectors, every entry
\* of the batch that is above the floor, not kept back and not replaced by
\* derived operations is in exactly one writer vector, exactly once, the one at
\* its hash modulo the number of vectors; no other entry of the batch is in any
\* vector, every element of a vector is an entry of the batch or a derived op,
\* and the entries of the batch that share a vector are there in batch order.
C22_BatchPartitioned ==
    pc = "done" =>
        /\ \A i \in 1..Len(ops) :
              IF RoutedAsItself(i)
              THEN RoutedOnceTo(Ptr(0, i), OwnWriter(ops[i]))
              ELSE ~Routed(Ptr(0, i))
        /\ RoutedPtrs \subseteq AllPtrs
        /\ \A w \in Writers : \A k, l \in 1..Len(writerVectors[w]) :
              (k < l /\ writerVectors[w][k].pool = 0 /\ writerVectors[w][l].pool = 0)
                  => writerVectors[w][k].idx < writerVectors[w][l].idx

\* A batch was partitioned in which one entry was filtered by the floor, one
\* was replaced by the operations it carries, and one went to a writer vector
\* as itself, a vector that holds a derived op too.
C22_Witness ==
    /\ pc = "done"
    /\ \E i \in 1..Len(ops) : ~AboveFloor(i)
    /\ \E i \in 1..Len(ops) : AboveFloor(i) /\ isTerminalApplyOps(ops[i])
    /\ \E i \in 1..Len(ops) : \E w \in Writers :
          /\ RoutedAsItself(i) /\ Places(Ptr(0, i), w) # {}
          /\ \E k \in 1..Len(writerVectors[w]) : writerVectors[w][k].pool # 0

\* ------------------------------------------------ one application per op
\* The records of the log for place k of the sorted vector.
RecordsAt(k) == {j \in DOMAIN applyLog : applyLog[j].at = k}

\* C23: no op of a worker's vector is handled twice, and in a run that returns
\* OK every op is handled exactly once, as a member of one group of inserts or
\* by one call of syncApply; while the loop runs, the handled ops are exactly
\* those before the iterator, so behind a group the loop goes on with the op
\* after the group's last, and where no group was made the op at the iterator
\* is the one syncApply gets; a group holds only unmarked inserts into one
\* collection.
C23_HandledOnce ==
    /\ \A k \in 1..Len(workerOps) : Cardinality(RecordsAt(k)) <= 1
    /\ \A j \in DOMAIN applyLog : applyLog[j].at \in 1..Len(workerOps)
    /\ wPc = "loop" =>
          \A k \in 1..Len(workerOps) : (RecordsAt(k) # {}) <=> (k < it)
    /\ (WorkerDone /\ workerStatus = "OK") =>
          \A k \in 1..Len(workerOps) : Cardinality(RecordsAt(k)) = 1
    /\ \A j \in DOMAIN applyLog :
          applyLog[j].how = "group" =>
              /\ LoggedOp(j).opType = "i" /\ ~LoggedOp(j).isForCappedCollection
              /\ \E l \in DOMAIN applyLog \ {j} :
                    /\ (l = j + 1 \/ l = j - 1) /\ applyLog[l].how = "group"
                    /\ LoggedOp(l).ns = LoggedOp(j).ns

\* A run of three inserts into one collection returned OK: no group was made
\* at the first, which syncApply applied, and the other two went in as a group.
C23_Witness ==
    /\ WorkerDone /\ workerStatus = "OK" /\ Len(workerOps) = 3
    /\ GroupEnds(workerOps, 1) # {}
    /\ Len(applyLog) = 3
    /\ applyLog[1].how = "status"
    /\ applyLog[2].how = "group" /\ applyLog[3].how = "group"

\* ------------------------------------- transactions of several sessions
\* The entries of a batch of transactions at opTime ot: two sessions, two txn
\* numbers, and a write outside any transaction.
TxnInputOps(ot) ==
    {Entry("partial", "c", "a.$cmd", 0, s, x, <<Inner("i", NsC, s)>>, ot) :
         s \in Sessions, x \in {7, 8}}
    \cup {Entry("prepare", "c", "a.$cmd", 0, 2, x, <<Inner("u", NsC, 2)>>, ot) :
              x \in {7, 8}}
    \cup {Entry(k, "c", "a.$cmd", 0, s, 7, <<>>, ot) :
              k \in {"commit", "abort"}, s \in Sessions}
    \cup {Entry("applyOps", "c", "a.$cmd", 0, s, 7, <<Inner("d", NsC, s)>>, ot) :
              s \in Sessions}
    \cup {Entry("crud", "i", NsK, 1, 0, 0, <<>>, ot)}

\* Lines 514-520: the entry is to be kept back, and the invariant on the txn
\* number of its session's list does not hold.
InvariantFails(st, op) ==
    /\ ~BelowFloor(op, beginApplyingOpTime)
    /\ IsBuffered(op, mode)
    /\ ~TxnNumberAgrees(st, op)

\* The loop of _deriveOpsAndFillWriterVectors reads the next entry of a batch
\* of transactions; a failed invariant ends the process, after the tracker
\* was given the entry.
ScanTxn ==
    /\ pc = "scan"
    /\ Len(ops) < MaxBatch
    /\ \E op \in TxnInputOps(Len(ops) + 1) :
          LET st == [State EXCEPT !.ops = Append(ops, op)] IN
          IF InvariantFails(st, op)
          THEN /\ SetState(TrackStep(st, Ptr(0, Len(ops) + 1), supportsDocLocking,
                                     TRUE))
               /\ pc' = "aborted"
          ELSE /\ SetState(StepOp(st, Ptr(0, Len(ops) + 1), mode, supportsDocLocking,
                                  beginApplyingOpTime, TRUE))
               /\ pc' = pc
    /\ UNCHANGED <<mode, supportsDocLocking, beginApplyingOpTime>>
    /\ UNCHANGED <<applyVars, workerVars>>

NextTxn == ScanTxn \/ Flush

SpecTxn == Init /\ [][NextTxn]_vars

\* The entries of the batch the loop has gone through.
Scanned == 1..(IF pc = "aborted" THEN Len(ops) - 1 ELSE Len(ops))

\* The entries of session s that were kept back and whose transaction no later
\* entry of s has ended or aborted.
Pending(s) ==
    {e \in Scanned :
        /\ AboveFloor(e) /\ HeldBack(ops[e]) /\ ops[e].sid = s
        /\ ~\E r \in Scanned :
              r > e /\ (EndsTransaction(r, s) \/ AbortsTransaction(r, s))}

\* C24: at every point of the pass, the partial list of every session s holds
\* exactly the kept-back entries of s that no later entry of s has ended or
\* aborted, each once, in batch order, all with one txn number; so what is
\* done for an entry of one session leaves the lists of the other sessions as
\* they are, and the operations made from a list are those of entries of the
\* session of the entry that ends the transaction.
C24_PartialListsWellFormed ==
    /\ \A s \in Sessions :
          LET list == partialTxnOps[s] IN
          /\ \A k \in 1..Len(list) :
                /\ list[k].pool = 0
                /\ ops[list[k].idx].sid = s
                /\ HeldBack(ops[list[k].idx])
                /\ ops[list[k].idx].txn = ops[list[1].idx].txn
          /\ \A k, l \in 1..Len(list) : k < l => list[k].idx < list[l].idx
          /\ {list[k].idx : k \in 1..Len(list)} = Pending(s)
    /\ \A p \in 1..Len(derivedOps) : \A j \in 1..Len(derivedOps[p]) :
          LET d == derivedOps[p][j] IN
          d.entry # 0 => ops[d.entry].sid = ops[d.opTime].sid

\* The entries of two sessions were kept back one after the other, and then
\* the transaction of one of them was ended or aborted: its list is empty, the
\* list of the other session still holds its entry.
C24_Witness ==
    /\ pc = "scan" /\ Len(ops) = 3
    /\ \E s, t \in Sessions :
          /\ s # t
          /\ EndsTransaction(3, s) \/ AbortsTransaction(3, s)
          /\ \E e \in 1..2 : HeldBack(ops[e]) /\ ops[e].sid = s /\ AboveFloor(e)
          /\ partialTxnOps[s] = <<>>
          /\ partialTxnOps[t] # <<>>

====
